---- MODULE Spec2Model ----
(***************************************************************************)
(* dynamodel.settings.base.BaseSettings                                    *)
(*                                                                         *)
(*   class BaseSettings(BaseModel):                                        *)
(*       type_name: str | None = None                                      *)
(*       access_patterns: dict = Field(default_factory=dict)               *)
(*                                                                         *)
(* The class declares two fields and no model_config, so it runs under     *)
(* pydantic's defaults: lax (non-strict) validation at construction, no    *)
(* validation on attribute assignment, not frozen.  The model is a Python  *)
(* heap of mapping objects, the list of records built so far, and the      *)
(* outcome of the most recent call.                                        *)
(***************************************************************************)
EXTENDS Integers, Sequences, FiniteSets

VARIABLES heap,      \* sequence of mapping objects; an object's id is its index
          records,   \* sequence of the BaseSettings instances constructed so far
          last,      \* the most recent call and its outcome
          nops       \* number of post-construction operations performed

vars == <<heap, records, last, nops>>

(* ---------------------------- bounds ----------------------------------- *)
MaxRecords == 2
MaxOps == 2

(* ------------------------- Python values ------------------------------- *)
\* Every value has the same shape so that values of different Python types
\* can be compared: kind is the Python type, data the code points (str),
\* the bytes (bytes) or the number (int), ref the id of a heap object.
PyVal(k, d, r) == [kind |-> k, data |-> d, ref |-> r]
Missing == PyVal("missing", <<>>, 0)     \* the keyword argument is not passed
PyNone == PyVal("none", <<>>, 0)
PyStr(s) == PyVal("str", s, 0)
PyBytes(b) == PyVal("bytes", b, 0)
PyInt(n) == PyVal("int", <<n>>, 0)
PyList == PyVal("list", <<>>, 0)
PyRef(o) == PyVal("object", <<>>, o)

StrUser == <<85, 115, 101, 114>>         \* "User"
StrById == <<98, 121, 95, 105, 100>>     \* "by_id"
StrPk == <<112, 107>>                    \* "pk"
StrEAcute == <<233>>                     \* "é"
BytesEAcute == <<195, 169>>              \* b"\xc3\xa9", UTF-8 of "é"
BytesTruncated == <<195>>                \* b"\xc3", not valid UTF-8

\* A mapping object: its class, its items (a function on its key set) and,
\* for the properties only, where it came from.
MapObj(c, it, og) == [cls |-> c, items |-> it, origin |-> og]
NoItems == [k \in {} |-> PyNone]
OneItem(k, v) == [x \in {k} |-> v]

\* The mappings the caller holds and may pass as access_patterns.
ArgObjects ==
    << MapObj("dict", OneItem(PyStr(StrById), PyStr(StrPk)), "arg"),
       MapObj("dict", OneItem(PyInt(1), PyStr(StrPk)), "arg"),
       MapObj("mappingproxy", OneItem(PyStr(StrById), PyStr(StrPk)), "arg") >>

TypeNameInputs ==
    { Missing, PyNone, PyStr(StrUser), PyStr(<<>>), PyInt(123),
      PyBytes(BytesEAcute), PyBytes(BytesTruncated) }

ScalarApInputs == { Missing, PyNone, PyList, PyInt(5), PyStr(StrPk) }

Init ==
    /\ heap = ArgObjects
    /\ records = <<>>
    /\ last = [op |-> "none", tn |-> Missing, ap |-> Missing, ok |-> TRUE,
               errors |-> {}, rec |-> 0, before |-> 0]
    /\ nops = 0

(* ------------------------ field validation ----------------------------- *)
\* Continuation bytes a UTF-8 lead byte asks for; -1 when b cannot lead.
Utf8Need(b) ==
    IF b < 128 THEN 0
    ELSE IF b >= 194 /\ b <= 223 THEN 1
    ELSE IF b >= 224 /\ b <= 239 THEN 2
    ELSE IF b >= 240 /\ b <= 244 THEN 3
    ELSE -1

Utf8Payload(b) ==
    IF b < 128 THEN b
    ELSE IF b <= 223 THEN b - 192
    ELSE IF b <= 239 THEN b - 224
    ELSE b - 240

RECURSIVE Utf8Fold(_, _)
Utf8Fold(acc, conts) ==
    IF conts = <<>> THEN acc
    ELSE Utf8Fold(acc * 64 + (Head(conts) - 128), Tail(conts))

\* bytes -> code points, as str(bytes, "utf-8") decodes them.
RECURSIVE Utf8Decode(_)
Utf8Decode(b) ==
    IF b = <<>> THEN [ok |-> TRUE, cps |-> <<>>]
    ELSE LET need == Utf8Need(Head(b)) IN
         IF need < 0 \/ Len(b) < 1 + need
           THEN [ok |-> FALSE, cps |-> <<>>]
         ELSE LET conts == SubSeq(b, 2, 1 + need)
                  rest == Utf8Decode(SubSeq(b, 2 + need, Len(b)))
              IN IF (\E i \in 1..Len(conts) : conts[i] < 128 \/ conts[i] > 191)
                    \/ ~rest.ok
                   THEN [ok |-> FALSE, cps |-> <<>>]
                 ELSE [ok |-> TRUE,
                       cps |-> <<Utf8Fold(Utf8Payload(Head(b)), conts)>> \o rest.cps]

Invalid == [ok |-> FALSE, value |-> Missing]
Valid(v) == [ok |-> TRUE, value |-> v]

\* Decimal digits of a natural number, as str(n) writes them.
RECURSIVE IntToStr(_)
IntToStr(n) == IF n < 10 THEN <<48 + n>> ELSE IntToStr(n \div 10) \o <<48 + (n % 10)>>

\* Variant: numbers are coerced to their decimal text instead of rejected.
ValidateStrCoerceNumbers(v) ==
    IF v.kind = "str" THEN Valid(v)
    ELSE IF v.kind = "int" THEN Valid(PyStr(IntToStr(v.data[1])))
    ELSE IF v.kind = "bytes"
      THEN LET d == Utf8Decode(v.data) IN
           IF d.ok THEN Valid(PyStr(d.cps)) ELSE Invalid
    ELSE Invalid

\* The str validator in lax mode: a str passes unchanged, bytes are decoded
\* as UTF-8, anything else (numbers included) is rejected.
ValidateStr(v) ==
    IF v.kind = "str" THEN Valid(v)
    ELSE IF v.kind = "bytes"
      THEN LET d == Utf8Decode(v.data) IN
           IF d.ok THEN Valid(PyStr(d.cps)) ELSE Invalid
    ELSE Invalid

\* Variant: the union is not validated at all.
ValidateTypeNameAny(v) == Valid(v)

\* Variant: a falsy string is taken for None.
ValidateTypeNameFalsyAsNone(v) ==
    IF v.kind = "none" \/ v = PyStr(<<>>) THEN Valid(PyNone) ELSE ValidateStr(v)

\* type_name: str | None
ValidateTypeName(v) ==
    IF v.kind = "none" THEN Valid(PyNone) ELSE ValidateStr(v)

\* Variant: the default is the empty string.
TypeNameDefaultEmpty == PyStr(<<>>)

\* type_name ... = None
TypeNameDefault == PyNone

\* Variant: a mutable default, one dict shared by every construction.
ApplySharedDefault(h) ==
    IF \E o \in 1..Len(h) : h[o].origin = "default"
      THEN [ok |-> TRUE, heap |-> h,
            ref |-> CHOOSE o \in 1..Len(h) : h[o].origin = "default"]
    ELSE [ok |-> TRUE, heap |-> Append(h, MapObj("dict", NoItems, "default")),
          ref |-> Len(h) + 1]

\* access_patterns ... = Field(default_factory=dict): dict() is called anew
\* for every construction that omits the field.
ApplyDefaultFactory(h) ==
    [ok |-> TRUE, heap |-> Append(h, MapObj("dict", NoItems, "default")),
     ref |-> Len(h) + 1]

\* Variant: the supplied mapping is stored as it is, without building a dict.
ValidateDictNoCopy(h, v) ==
    IF v.kind = "object" /\ v.ref \in 1..Len(h)
      THEN [ok |-> TRUE, heap |-> h, ref |-> v.ref]
    ELSE [ok |-> FALSE, heap |-> h, ref |-> 0]

StrKeys(it) == { k \in DOMAIN it : k.kind = "str" }

\* Variant: items whose key is not a str are dropped.
ValidateDictStrKeysOnly(h, v) ==
    IF v.kind = "object" /\ v.ref \in 1..Len(h)
      THEN [ok |-> TRUE,
            heap |-> Append(h, MapObj("dict",
                        [k \in StrKeys(h[v.ref].items) |-> h[v.ref].items[k]],
                        "validated")),
            ref |-> Len(h) + 1]
    ELSE [ok |-> FALSE, heap |-> h, ref |-> 0]

\* Variant: keys are validated as str (dict[str, Any]).
ValidateDictRejectNonStrKeys(h, v) ==
    IF v.kind = "object" /\ v.ref \in 1..Len(h)
       /\ StrKeys(h[v.ref].items) = DOMAIN h[v.ref].items
      THEN [ok |-> TRUE,
            heap |-> Append(h, MapObj("dict", h[v.ref].items, "validated")),
            ref |-> Len(h) + 1]
    ELSE [ok |-> FALSE, heap |-> h, ref |-> 0]

\* Variant: an explicit None is replaced by a new empty dict.
ValidateDictNoneAsEmpty(h, v) ==
    IF v.kind = "object" /\ v.ref \in 1..Len(h)
      THEN [ok |-> TRUE,
            heap |-> Append(h, MapObj("dict", h[v.ref].items, "validated")),
            ref |-> Len(h) + 1]
    ELSE IF v.kind = "none"
      THEN [ok |-> TRUE, heap |-> Append(h, MapObj("dict", NoItems, "validated")),
            ref |-> Len(h) + 1]
    ELSE [ok |-> FALSE, heap |-> h, ref |-> 0]

\* access_patterns: dict, lax mode: a dict or any other Mapping passes; the
\* validator builds a new dict with the same items (keys and values are
\* unparameterised, so they are taken as they are).
ValidateDict(h, v) ==
    IF v.kind = "object" /\ v.ref \in 1..Len(h)
      THEN [ok |-> TRUE,
            heap |-> Append(h, MapObj("dict", h[v.ref].items, "validated")),
            ref |-> Len(h) + 1]
    ELSE [ok |-> FALSE, heap |-> h, ref |-> 0]

\* Variant: validation stops at the first failing field.
ValidateFieldsFailFast(h, tnIn, apIn) ==
    LET tn == IF tnIn = Missing THEN Valid(TypeNameDefault) ELSE ValidateTypeName(tnIn)
        ap == IF apIn = Missing THEN ApplyDefaultFactory(h) ELSE ValidateDict(h, apIn)
    IN [errors |-> IF ~tn.ok THEN {"type_name"}
                   ELSE IF ~ap.ok THEN {"access_patterns"} ELSE {},
        type_name |-> tn.value,
        heap |-> ap.heap,
        ref |-> ap.ref]

\* The model validator: each field in declaration order, a missing one takes
\* its default (defaults are not validated), every failing field is reported.
ValidateFields(h, tnIn, apIn) ==
    LET tn == IF tnIn = Missing THEN Valid(TypeNameDefault) ELSE ValidateTypeName(tnIn)
        ap == IF apIn = Missing THEN ApplyDefaultFactory(h) ELSE ValidateDict(h, apIn)
    IN [errors |-> (IF tn.ok THEN {} ELSE {"type_name"})
                   \cup (IF ap.ok THEN {} ELSE {"access_patterns"}),
        type_name |-> tn.value,
        heap |-> ap.heap,
        ref |-> ap.ref]

(* ------------------------------ actions -------------------------------- *)
Call(op, tnIn, apIn, errs, r) ==
    [op |-> op, tn |-> tnIn, ap |-> apIn, ok |-> errs = {}, errors |-> errs,
     rec |-> r, before |-> Len(records)]

Items(h, v) == IF v.kind = "object" /\ v.ref \in 1..Len(h) THEN h[v.ref].items ELSE NoItems

\* BaseSettings(type_name=tnIn, access_patterns=apIn)
Construct(tnIn, apIn) ==
    /\ Len(records) < MaxRecords
    /\ LET res == ValidateFields(heap, tnIn, apIn) IN
       IF res.errors = {}
         THEN /\ heap' = res.heap
              /\ records' = Append(records,
                    [type_name |-> res.type_name,
                     access_patterns |-> PyRef(res.ref),
                     born |-> [type_name |-> res.type_name,
                               items |-> res.heap[res.ref].items],
                     src |-> apIn,
                     assigned |-> FALSE,
                     touched |-> FALSE])
              /\ last' = Call("construct", tnIn, apIn, {}, Len(records) + 1)
         ELSE /\ UNCHANGED <<heap, records>>
              /\ last' = Call("construct", tnIn, apIn, res.errors, 0)
    /\ UNCHANGED nops

\* record.<field> = v : no validate_assignment, not frozen, so any value is stored.
SetAttr(r, f, v) ==
    /\ nops < MaxOps
    /\ r \in 1..Len(records)
    /\ records' = [records EXCEPT ![r] = [@ EXCEPT ![f] = v, !.assigned = TRUE,
                                                    !.touched = TRUE]]
    /\ last' = Call("setattr", Missing, Missing, {}, r)
    /\ nops' = nops + 1
    /\ UNCHANGED heap

Holds(rec, o) == rec.access_patterns.kind = "object" /\ rec.access_patterns.ref = o

Touch(o) ==
    [i \in 1..Len(records) |->
        IF Holds(records[i], o) THEN [records[i] EXCEPT !.touched = TRUE]
        ELSE records[i]]

DictSetItem(it, k, v) == [x \in DOMAIN it \cup {k} |-> IF x = k THEN v ELSE it[x]]
DictDelItem(it, k) == [x \in DOMAIN it \ {k} |-> it[x]]

\* record.access_patterns[k] = v
RecordSetItem(r, k, v) ==
    /\ nops < MaxOps
    /\ r \in 1..Len(records)
    /\ records[r].access_patterns.kind = "object"
    /\ LET o == records[r].access_patterns.ref IN
       /\ heap[o].cls = "dict"
       /\ heap' = [heap EXCEPT ![o].items = DictSetItem(@, k, v)]
       /\ records' = Touch(o)
    /\ last' = Call("setitem", Missing, Missing, {}, r)
    /\ nops' = nops + 1

\* del record.access_patterns[k]
RecordDelItem(r, k) ==
    /\ nops < MaxOps
    /\ r \in 1..Len(records)
    /\ records[r].access_patterns.kind = "object"
    /\ LET o == records[r].access_patterns.ref IN
       /\ heap[o].cls = "dict"
       /\ k \in DOMAIN heap[o].items
       /\ heap' = [heap EXCEPT ![o].items = DictDelItem(@, k)]
       /\ records' = Touch(o)
    /\ last' = Call("delitem", Missing, Missing, {}, r)
    /\ nops' = nops + 1

\* The caller changes a mapping it passed (or may pass) as access_patterns.
ArgSetItem(o, k, v) ==
    /\ nops < MaxOps
    /\ o \in 1..Len(heap)
    /\ heap[o].origin = "arg"
    /\ heap[o].cls = "dict"
    /\ heap' = [heap EXCEPT ![o].items = DictSetItem(@, k, v)]
    /\ last' = Call("argsetitem", Missing, PyRef(o), {}, 0)
    /\ nops' = nops + 1
    /\ UNCHANGED records

InsertKeys == { PyStr(StrPk) }
InsertValues == { PyInt(7) }
TypeNameAssigned == { PyInt(123) }

AllRefs == { PyRef(o) : o \in 1..Len(heap) }

\* Every kind of input, construction only.
NextConstruct ==
    \E tnIn \in TypeNameInputs : \E apIn \in ScalarApInputs \cup AllRefs :
        Construct(tnIn, apIn)

SpecConstruct == Init /\ [][NextConstruct]_vars

\* Construction followed by what a holder of a record, or of the mapping
\* that was passed in, can do afterwards.
LifeTypeNames == { PyStr(StrUser), PyInt(123) }
\* The caller's first mapping and every mapping a construction has made.
LifeObjects == { o \in 1..Len(heap) : o = 1 \/ heap[o].origin # "arg" }
LifeRefs == { PyRef(o) : o \in LifeObjects }

Next ==
    \/ \E tnIn \in LifeTypeNames : \E apIn \in { Missing } \cup LifeRefs :
            Construct(tnIn, apIn)
    \/ \E r \in 1..Len(records) : \E v \in TypeNameAssigned :
            SetAttr(r, "type_name", v)
    \/ \E r \in 1..Len(records) : \E v \in { PyNone } \cup LifeRefs :
            SetAttr(r, "access_patterns", v)
    \/ \E r \in 1..Len(records) : \E k \in InsertKeys : \E v \in InsertValues :
            RecordSetItem(r, k, v)
    \/ \E r \in 1..Len(records) : \E k \in InsertKeys \cup { PyStr(StrById) } :
            RecordDelItem(r, k)
    \/ \E o \in LifeObjects : \E k \in InsertKeys : \E v \in InsertValues :
            ArgSetItem(o, k, v)

Spec == Init /\ [][Next]_vars

(* ----------------------------- properties ------------------------------ *)
Constructed == last.op = "construct"
Made == Constructed /\ last.ok /\ last.rec \in 1..Len(records)
NoRecordMade == ~last.ok /\ last.rec = 0 /\ Len(records) = last.before
RecItems(r) == Items(heap, records[r].access_patterns)
IsDict(v) == v.kind = "object" /\ v.ref \in 1..Len(heap) /\ heap[v.ref].cls = "dict"
\* What the specification calls a valid type_name input, and a valid access_patterns input.
TnStringOrNull(v) == v.kind \in {"missing", "none", "str"}
ApMappingOrOmitted(v) == v.kind \in {"missing", "object"}
ExpectedItems(v) == IF v = Missing THEN NoItems ELSE Items(heap, v)

\* C1: a construction that supplies neither type_name nor access_patterns
\* succeeds and yields type_name = None and access_patterns = {}.
C1_DefaultsWhenOmitted ==
    (Constructed /\ last.tn = Missing /\ last.ap = Missing) =>
        /\ Made
        /\ Len(records) = last.before + 1
        /\ records[last.rec].type_name = PyNone
        /\ IsDict(records[last.rec].access_patterns)
        /\ RecItems(last.rec) = NoItems

C1_Witness == Made /\ last.tn = Missing /\ last.ap = Missing

\* C2: when access_patterns is supplied as a mapping (type_name a string,
\* None or omitted), construction succeeds and the record's access_patterns
\* has exactly the keys and values of the supplied mapping.
C2_MappingKept ==
    (Constructed /\ last.ap.kind = "object" /\ TnStringOrNull(last.tn)) =>
        /\ Made
        /\ IsDict(records[last.rec].access_patterns)
        /\ DOMAIN RecItems(last.rec) = DOMAIN Items(heap, last.ap)
        /\ \A k \in DOMAIN RecItems(last.rec) :
              RecItems(last.rec)[k] = Items(heap, last.ap)[k]

C2_Witness ==
    /\ Made
    /\ last.ap.kind = "object"
    /\ RecItems(last.rec) = OneItem(PyStr(StrById), PyStr(StrPk))
    /\ records[last.rec].type_name = PyNone

\* C3: a type_name supplied as a string (the empty string included) is kept
\* exactly, with access_patterns the supplied mapping or {} if omitted; a
\* type_name supplied as None yields None.
C3_TypeNameKept ==
    (Constructed /\ last.tn.kind \in {"str", "none"} /\ ApMappingOrOmitted(last.ap)) =>
        /\ Made
        /\ records[last.rec].type_name = last.tn
        /\ IsDict(records[last.rec].access_patterns)
        /\ RecItems(last.rec) = ExpectedItems(last.ap)

C3_Witness ==
    /\ Made
    /\ last.tn = PyStr(<<>>)
    /\ records[last.rec].type_name = PyStr(<<>>)

BytesDecodable(v) == v.kind = "bytes" /\ Utf8Decode(v.data).ok

C5_NonMappingRejected ==
    (Constructed /\ ~ApMappingOrOmitted(last.ap)) =>
        /\ "access_patterns" \in last.errors
        /\ NoRecordMade

C5_Witness ==
    /\ Constructed
    /\ last.ap = PyNone
    /\ TnStringOrNull(last.tn)
    /\ last.errors = {"access_patterns"}

AsConstructed(r) ==
    /\ records[r].type_name = records[r].born.type_name
    /\ IsDict(records[r].access_patterns)
    /\ RecItems(r) = records[r].born.items

\* C6 as stated: nothing a holder can do changes a record's type_name or
\* access_patterns after construction.
C6_Immutable == \A r \in 1..Len(records) : AsConstructed(r)

\* C6 amended: a record keeps the values set at construction for as long as
\* nobody assigns to its fields or inserts into / removes from the mapping it
\* holds; later constructions (also ones that are passed its mapping) and
\* changes to the mapping that was passed in never change it.
C6_UnchangedUnlessWritten ==
    \A r \in 1..Len(records) : ~records[r].touched => AsConstructed(r)

C6_Witness ==
    /\ last.op = "argsetitem"
    /\ \E r \in 1..Len(records) :
          /\ records[r].src = last.ap
          /\ ~records[r].touched
          /\ Items(heap, last.ap) # records[r].born.items

WellTyped(r) ==
    /\ IsDict(records[r].access_patterns)
    /\ records[r].type_name.kind \in {"none", "str"}

\* C7 as stated: in every state of every record, after any operation,
\* access_patterns is a mapping and type_name is None or a string.
C7_AlwaysWellTyped == \A r \in 1..Len(records) : WellTyped(r)

\* C7 amended: access_patterns is a mapping (never None) and type_name is
\* None or a string in every state of a record whose fields have not been
\* assigned since construction.
C7_WellTypedUnlessAssigned ==
    \A r \in 1..Len(records) : ~records[r].assigned => WellTyped(r)

C7_Witness ==
    /\ last.op = "setitem"
    /\ last.rec \in 1..Len(records)
    /\ ~records[last.rec].assigned
    /\ RecItems(last.rec) # records[last.rec].born.items

\* C8 as stated: every key of a constructed record's access_patterns is a
\* string.
C8_KeysAreStrings ==
    Made => \A k \in DOMAIN RecItems(last.rec) : k.kind = "str"

HasNonStrKey(it) == \E k \in DOMAIN it : k.kind # "str"

\* C8 amended: keys are not validated; a supplied mapping with a non-string
\* key is accepted and the record holds that key, unconverted.
C8_KeysKeptAsSupplied ==
    (Constructed /\ last.ap.kind = "object" /\ HasNonStrKey(Items(heap, last.ap))
       /\ TnStringOrNull(last.tn)) =>
        /\ Made
        /\ \A k \in DOMAIN Items(heap, last.ap) :
              k.kind # "str" => k \in DOMAIN RecItems(last.rec)

C8_Witness == Made /\ PyInt(1) \in DOMAIN RecItems(last.rec)

TnRejected(v) == v # Missing /\ ~ValidateTypeName(v).ok
ApRejected(v) == ~ApMappingOrOmitted(v)
RejectedFields(tnIn, apIn) ==
    { f \in {"type_name", "access_patterns"} :
        \/ f = "type_name" /\ TnRejected(tnIn)
        \/ f = "access_patterns" /\ ApRejected(apIn) }

\* C9: construction is all-or-nothing; if a field is invalid the error names
\* every invalid field and no record is made, and a record is made only if
\* both fields passed.
C9_AllOrNothing ==
    Constructed =>
        /\ last.errors = RejectedFields(last.tn, last.ap)
        /\ last.errors # {} => NoRecordMade
        /\ last.errors = {} => Made /\ Len(records) = last.before + 1
        /\ Len(records) \in {last.before, last.before + 1}

C9_Witness ==
    /\ Constructed
    /\ last.errors = {"type_name", "access_patterns"}
    /\ Len(records) > 0

DefaultHeld(r) == records[r].src = Missing /\ ~records[r].assigned

\* C10: every construction that omits access_patterns gets its own empty
\* mapping: two such records never hold the same mapping object, so an
\* entry added to one leaves the other empty, and a record constructed
\* afterwards starts empty.
C10_FreshDefault ==
    /\ \A r1, r2 \in 1..Len(records) :
          (r1 # r2 /\ DefaultHeld(r1) /\ DefaultHeld(r2)) =>
              records[r1].access_patterns.ref # records[r2].access_patterns.ref
    /\ \A r \in 1..Len(records) :
          (DefaultHeld(r) /\ ~records[r].touched) => RecItems(r) = NoItems
    /\ (Made /\ last.ap = Missing) => RecItems(last.rec) = NoItems

C10_Witness ==
    /\ last.op = "setitem"
    /\ \E r1, r2 \in 1..Len(records) :
          /\ r1 # r2
          /\ DefaultHeld(r1) /\ DefaultHeld(r2)
          /\ RecItems(r1) # NoItems
          /\ RecItems(r2) = NoItems

====
